---- MODULE Spec2Model ----
(***************************************************************************)
(* A model of the Craigslist crawler: CraigslistBase (src/base.py) and     *)
(* CraigslistBrowser (src/browser.py).                                     *)
(*                                                                         *)
(*   SpecEnrich   process_row on one result row: the row parser,           *)
(*                geotag_result and include_details (contact reveal).      *)
(*   SpecFilters  __init__ / get_filters: semantic filters to GET params.  *)
(*   SpecCrawl    construction followed by the get_results generator.      *)
(*   SpecGeo      geotag_results: the queue and its worker threads.        *)
(*   SpecBrowser  the browser session: the main thread's operations and    *)
(*                the check_activity timer thread, statement by statement. *)
(*                                                                         *)
(* Python values: None is the string "None"; a dictionary key that has not *)
(* been assigned is "unset"; an exception is named by its class, "none"    *)
(* when nothing was raised.                                                *)
(***************************************************************************)
EXTENDS Integers, Sequences, FiniteSets, TLC

None == "None"
Unset == "unset"
NoFault == "none"

(***************************************************************************)
(* The state.                                                              *)
(***************************************************************************)

\* process_row applied to one row (SpecEnrich), and the flags of the call.
VARIABLES
    row,              \* the row handed to process_row
    soup,             \* what fetch_content returns for the row's url
    geotagged,        \* the geotagged argument
    include_details,  \* the include_details argument
    called,           \* whether process_row has run
    out               \* its Outcome

\* The class attribute __list_filters and one CraigslistBase object.
VARIABLES
    list_filters,   \* CraigslistBase.__list_filters: per URL, the cached table
    pc,             \* where the search is: "new", "ready", "fetch", "rows", "done", "raised"
    url,            \* self.url
    request,        \* the filters argument of the constructor
    filters,        \* self.filters
    fetched,        \* kinds of network fetch made since the constructor was entered
    fault           \* the exception that reached the caller

\* The class attributes of CraigslistBrowser and the threads that use them.
VARIABLES
    DRIVER,     \* CraigslistBrowser.DRIVER: 0 for None, else the instance
    launched,   \* how many browser instances were launched: instances 1..launched
    quitted,    \* the instances on which quit() was called
    elapsed,    \* time.time() - last_called in seconds, counted up to IdleLimit
    waiting,    \* CraigslistBrowser.waiting
    mop,        \* the operation the main thread is in
    mpc,        \* the statement the main thread is at
    driver,     \* the main thread's local `driver` (include_details, line 287)
    tpc         \* the statement the timer thread is at

\* The locals of a running get_results generator.
VARIABLES
    start,            \* the offset of the page being read
    total_so_far,
    results_yielded,
    total,
    limit,
    nrows,            \* how many result rows the page read last has
    rowsSeen,         \* the rows of that page the loop has reached, in page order
    yielded,          \* the items the generator has yielded from that page
    call_fetched      \* kinds of network fetch made by the running get_results call

\* A geotag_results call.
VARIABLES
    input,      \* the results argument, as passed
    workers,    \* the workers argument
    results,    \* the list `results` (line 414), its records mutated in place
    queue,      \* the Queue: positions of the records still in it
    gpc,        \* the calling thread: "fill", "start", "join", "returned"
    started,    \* how many threads were started
    wpc,        \* per thread: "unstarted", "test", "get", "dead", "exited"
    taken,      \* the (record, thread) pairs of the dequeues, in order
    tagged,     \* the records a geotag_result call has run on to its end
    ret         \* the value returned

\* Threads calling get_list_filters.
VARIABLES
    cpc,        \* per caller: "idle", "test", "fetch", "return"
    carg,       \* per caller: the url argument of its call
    fetches     \* per URL: how many times utils.get_list_filters(url) was called

enrichVars == <<row, soup, called, out>>

cacheVars == <<cpc, carg, fetches>>

flagVars == <<geotagged, include_details>>

filterVars == <<list_filters, url, request, filters>>

browserVars == <<DRIVER, launched, quitted, elapsed, waiting, mop, mpc, driver, tpc>>

crawlVars ==
    <<start, total_so_far, results_yielded, total, limit, nrows, rowsSeen, yielded,
      call_fetched>>

geoVars == <<input, workers, results, queue, gpc, started, wpc, taken, tagged, ret>>

searchVars == <<pc, fetched, fault>>

\* Everything but the geotagging call, and everything but the browser session.
nonGeoVars ==
    <<enrichVars, flagVars, filterVars, searchVars, crawlVars, browserVars, cacheVars>>

nonBrowserVars ==
    <<enrichVars, flagVars, filterVars, searchVars, crawlVars, geoVars, cacheVars>>

vars ==
    <<enrichVars, flagVars, filterVars, searchVars, crawlVars, browserVars, geoVars,
      cacheVars>>

(***************************************************************************)
(* Inputs of the row parser and of the detail enrichment.                  *)
(***************************************************************************)

\* One <li class="cl-search-result"> of a results page: whether it holds the
\* spacer card, the a.main link, the div.meta and the span.priceinfo.
RowShapes(pids) ==
    [pid : pids, spacer : BOOLEAN, link : BOOLEAN, meta : BOOLEAN, price : BOOLEAN]

\* div#map of a detail page: absent, with both data-latitude and
\* data-longitude, or with one of them only.
MapKinds == {"absent", "both", "lat_only", "lon_only"}

\* div.postinginfos of a detail page: absent, present without a "posted"
\* <time>, present with it.
InfoKinds == {"absent", "no_time", "time"}

\* What the browser does during the email step of include_details.
EmailOutcomes ==
    {"ok", "timeout", "captcha_solved", "captcha_no_sitekey", "captcha_solver_fails"}

\* What the browser does during the phone step of include_details.
PhoneOutcomes == {"ok", "timeout"}

\* fetch_content failed: the detail page is None.
NoPage ==
    [fetched |-> FALSE, body |-> FALSE, map |-> "absent", infos |-> "absent",
     email |-> "timeout", phone |-> "timeout", address |-> FALSE]

\* A fetched detail page without section#postingbody (nothing after the body
\* check is read, so only the map varies).
BodylessPages ==
    {[fetched |-> TRUE, body |-> FALSE, map |-> m, infos |-> "absent",
      email |-> "timeout", phone |-> "timeout", address |-> FALSE] : m \in MapKinds}

\* A fetched detail page with a body.
BodyPages ==
    [fetched : {TRUE}, body : {TRUE}, map : MapKinds, infos : InfoKinds,
     email : EmailOutcomes, phone : PhoneOutcomes, address : BOOLEAN]

DetailPages == {NoPage} \cup BodylessPages \cup BodyPages

(***************************************************************************)
(* process_row, geotag_result, include_details.                            *)
(***************************************************************************)

\* The outcome of a call: the result dictionary (NoResult when the call
\* returned None), the exception that left the call, and what the call did
\* on the way.
Outcome(result, exception, detail_fetch, browser, email_tried, phone_tried) ==
    [result |-> result, fault |-> exception, detail_fetch |-> detail_fetch,
     browser |-> browser, email_tried |-> email_tried, phone_tried |-> phone_tried]

\* The exception the row parser raises on a non-spacer row: link.attrs on a
\* missing a.main (line 212), then the unbound local `location` when div.meta
\* is missing (lines 216-220, 232).
RowFault(r) ==
    IF ~r.link THEN "AttributeError"
    ELSE IF ~r.meta THEN "UnboundLocalError"
    ELSE NoFault

\* The summary record the row parser builds (lines 222-242); the detail keys
\* are not in the dictionary yet.
ParseRow(r) ==
    [id |-> r.pid,
     price |-> IF r.price THEN "price" ELSE None,
     where |-> "where",
     geotag |-> None,
     deleted |-> FALSE,
     body |-> Unset, email |-> Unset, phone |-> Unset, created |-> Unset,
     images |-> Unset, attrs |-> Unset, address |-> Unset]

\* What stands for the None that process_row returns for a spacer (line 205),
\* and for the result of a call that raised before building one: listing ids
\* start at 1.
NoResult == [ParseRow([pid |-> 0, price |-> FALSE]) EXCEPT !.where = None]

IsNone(result) == result.id = 0

\* geotag_result(result, page): sets the geotag from div#map; a map element
\* lacking one of the two attributes raises KeyError.
GeotagResult(result, page) ==
    CASE page.map = "absent" -> [result |-> result, fault |-> NoFault]
      [] page.map = "both" ->
            [result |-> [result EXCEPT !.geotag = "latlng"], fault |-> NoFault]
      [] OTHER -> [result |-> result, fault |-> "KeyError"]

\* The exception that leaves the email step. A timeout is caught (line 303);
\* the handler itself raises when the captcha iframe's src has no sitekey
\* (line 309) or when the solver call fails (line 314).
EmailStepFault(page) ==
    CASE page.email = "captcha_no_sitekey" -> "IndexError"
      [] page.email = "captcha_solver_fails" -> "SolverError"
      [] OTHER -> NoFault

\* Lines 331-372: created, images, attrs and address, after the reveal.
ExtractRest(result, page) ==
    IF page.infos = "absent"
    THEN [result |-> result, fault |-> "AttributeError"]
    ELSE [result |->
            [result EXCEPT
               !.created = IF page.infos = "time" THEN "created" ELSE Unset,
               !.images = "images",
               !.attrs = "attrs",
               !.address = IF page.address THEN "address" ELSE Unset],
          fault |-> NoFault]

\* include_details(result, page), lines 277-372.
IncludeDetails(result, page) ==
    IF ~page.body
    THEN Outcome([result EXCEPT !.deleted = TRUE], NoFault, TRUE, FALSE, FALSE, FALSE)
    ELSE LET withBody == [result EXCEPT !.body = "body"]
             withEmail == IF page.email = "ok"
                          THEN [withBody EXCEPT !.email = "email"]
                          ELSE withBody
         IN IF EmailStepFault(page) # NoFault
            THEN Outcome(withEmail, EmailStepFault(page), TRUE, TRUE, TRUE, FALSE)
            ELSE LET withPhone == IF page.phone = "ok"
                                  THEN [withEmail EXCEPT !.phone = "phone"]
                                  ELSE withEmail
                     rest == ExtractRest(withPhone, page)
                 IN Outcome(rest.result, rest.fault, TRUE, TRUE, TRUE, TRUE)

\* process_row(row, geotagged, include_details), lines 202-255, on the row r
\* with the flags geo and det. `page` is what fetch_content returns for the
\* row's url, read only when a flag is set.
ProcessRow(r, geo, det, page) ==
    IF r.spacer THEN Outcome(NoResult, NoFault, FALSE, FALSE, FALSE, FALSE)
    ELSE IF RowFault(r) # NoFault
    THEN Outcome(NoResult, RowFault(r), FALSE, FALSE, FALSE, FALSE)
    ELSE LET result == ParseRow(r)
         IN IF ~(geo \/ det)
            THEN Outcome(result, NoFault, FALSE, FALSE, FALSE, FALSE)
            ELSE IF ~page.fetched
            THEN Outcome(result, NoFault, TRUE, FALSE, FALSE, FALSE)
            ELSE LET tag == IF geo
                            THEN GeotagResult(result, page)
                            ELSE [result |-> result, fault |-> NoFault]
                 IN IF tag.fault # NoFault
                    THEN Outcome(tag.result, tag.fault, TRUE, FALSE, FALSE, FALSE)
                    ELSE IF det
                    THEN IncludeDetails(tag.result, page)
                    ELSE Outcome(tag.result, NoFault, TRUE, FALSE, FALSE, FALSE)

\* Whether process_row reads the detail page at all.
NeedsDetail(r, geo, det) ==
    /\ ~r.spacer
    /\ RowFault(r) = NoFault
    /\ geo \/ det

(***************************************************************************)
(* SpecEnrich: process_row applied to one row.                             *)
(***************************************************************************)

NotCalled == Outcome(NoResult, NoFault, FALSE, FALSE, FALSE, FALSE)

EnrichIdle ==
    /\ row = [pid |-> 1, spacer |-> FALSE, link |-> TRUE, meta |-> TRUE, price |-> TRUE]
    /\ soup = NoPage
    /\ called = FALSE
    /\ out = NotCalled

EnrichInit ==
    /\ row \in RowShapes({1})
    /\ soup \in DetailPages
    /\ geotagged \in BOOLEAN
    /\ include_details \in BOOLEAN
    /\ called = FALSE
    /\ out = NotCalled

CallProcessRow ==
    /\ ~called
    /\ called' = TRUE
    /\ out' = ProcessRow(row, geotagged, include_details, soup)
    /\ UNCHANGED <<row, soup, geotagged, include_details>>
    /\ UNCHANGED <<filterVars, searchVars, crawlVars, browserVars, geoVars, cacheVars>>

(***************************************************************************)
(* The filter model: __init__, get_filters, get_list_filters.              *)
(***************************************************************************)

\* Bounds of the requests.
MaxOptions == 2
MaxFilters == 2

\* An entry of a filter table. kind is what get_filters tests on the entry's
\* "value": "raw" when it is None (line 99), "list" when it is a dict (line
\* 101, the dict being `options`), "flag" otherwise (line 112).
FilterSpec(url_key, kind, value, options) ==
    [url_key |-> url_key, kind |-> kind, value |-> value, options |-> options]

NoOptions == <<>>

\* base_filters, lines 36-44.
base_filters ==
    ("query" :> FilterSpec("query", "raw", None, NoOptions)) @@
    ("search_titles" :> FilterSpec("srchType", "flag", "T", NoOptions)) @@
    ("has_image" :> FilterSpec("hasPic", "flag", 1, NoOptions)) @@
    ("posted_today" :> FilterSpec("postedToday", "flag", 1, NoOptions)) @@
    ("bundle_duplicates" :> FilterSpec("bundleDuplicates", "flag", 1, NoOptions)) @@
    ("search_distance" :> FilterSpec("search_distance", "raw", None, NoOptions)) @@
    ("zip_code" :> FilterSpec("postal", "raw", None, NoOptions))

\* extra_filters, line 45: empty in CraigslistBase.
extra_filters == <<>>

\* sort_by_options, lines 51-55.
sort_by_options ==
    ("newest" :> "date") @@ ("price_asc" :> "priceasc") @@ ("price_desc" :> "pricedsc")

\* The search URLs (lines 73-78) of the model.
Urls == {"newyork/sss", "newyork/cta"}

\* What utils.get_list_filters(url) can return: the list filters of the
\* category page, each a provider key and a mapping from option name to option
\* code. A page without filter controls gives the empty table.
ListFilterTables ==
    { <<>>,
      ("condition" :>
          FilterSpec("condition", "list", "dict", ("new" :> "10") @@ ("used" :> "20"))) }

\* Option names a caller may ask for; "mint" is in no mapping.
OptionNames == {"new", "used", "mint"}

RECURSIVE SeqsUpTo(_, _)
SeqsUpTo(S, n) ==
    IF n = 0 THEN {<<>>}
    ELSE LET shorter == SeqsUpTo(S, n - 1)
         IN shorter \cup {Append(q, x) : q \in {t \in shorter : Len(t) = n - 1}, x \in S}

\* One (key, value) of the filters dictionary passed to the constructor.
\* iterable is utils.isiterable(value) and not isinstance(value, str): the
\* value is then the list `items`, and otherwise the scalar `value` (a string,
\* or a boolean written "True" / "False").
Scalar(key, value) == [key |-> key, iterable |-> FALSE, value |-> value, items |-> <<>>]

List(key, items) == [key |-> key, iterable |-> TRUE, value |-> "list", items |-> items]

RequestItems ==
    {Scalar("query", "apple")}
    \cup {Scalar("has_image", b) : b \in {"True", "False"}}
    \cup {List("condition", l) : l \in SeqsUpTo(OptionNames, MaxOptions)}
    \cup {Scalar("condition", o) : o \in OptionNames}
    \cup {Scalar("colour", "red")}

\* Python's truth value of a scalar.
Truthy(value) == value \notin {"False", "None", ""}

\* The filters dictionaries: items in insertion order, keys distinct.
Requests ==
    {r \in SeqsUpTo(RequestItems, MaxFilters) :
        \A i, j \in 1..Len(r) : i # j => r[i].key # r[j].key}

\* d[k] = v on a dictionary.
Put(d, k, v) == [x \in DOMAIN d \cup {k} |-> IF x = k THEN v ELSE d[x]]

\* Line 98: base_filters, then extra_filters, then the list filters; found is
\* FALSE where list_filters[key] raises KeyError.
LookupFilter(key, lf) ==
    IF key \in DOMAIN base_filters THEN [found |-> TRUE, spec |-> base_filters[key]]
    ELSE IF key \in DOMAIN extra_filters THEN [found |-> TRUE, spec |-> extra_filters[key]]
    ELSE IF key \in DOMAIN lf THEN [found |-> TRUE, spec |-> lf[key]]
    ELSE [found |-> FALSE, spec |-> base_filters["query"]]

RECURSIVE ResolveOptions_Default(_, _)
ResolveOptions_Default(value, valid_options) ==
    IF value = <<>> THEN <<>>
    ELSE LET rest == ResolveOptions_Default(Tail(value), valid_options)
         IN IF Head(value) \in DOMAIN valid_options
            THEN <<valid_options[Head(value)]>> \o rest
            ELSE <<"0">> \o rest

\* Lines 105-110: the codes of the options that are in valid_options, in the
\* order requested; the KeyError of another option is caught and logged.
RECURSIVE ResolveOptions(_, _)
ResolveOptions(value, valid_options) ==
    IF value = <<>> THEN <<>>
    ELSE LET rest == ResolveOptions(Tail(value), valid_options)
         IN IF Head(value) \in DOMAIN valid_options
            THEN <<valid_options[Head(value)]>> \o rest
            ELSE rest

\* Lines 99-113 for one item whose filter was found.
ApplyFilter(parsed, filter_, item) ==
    CASE filter_.kind = "raw" ->
            Put(parsed, filter_.url_key, IF item.iterable THEN item.items ELSE item.value)
      [] filter_.kind = "list" ->
            Put(parsed, filter_.url_key,
                ResolveOptions(IF item.iterable THEN item.items ELSE <<item.value>>,
                               filter_.options))
      [] OTHER -> IF IF item.iterable THEN item.items # <<>> ELSE Truthy(item.value)
                  THEN Put(parsed, filter_.url_key, filter_.value)
                  ELSE parsed

\* Lines 96-115: the loop over the items, from the dictionary built so far.
RECURSIVE ParseItems(_, _, _)
ParseItems(items, lf, parsed) ==
    IF items = <<>> THEN parsed
    ELSE LET f == LookupFilter(Head(items).key, lf)
         IN ParseItems(Tail(items), lf,
                       IF f.found THEN ApplyFilter(parsed, f.spec, Head(items))
                       ELSE parsed)

\* get_filters(filters), lines 85-117, with the list filters of self.url.
get_filters(req, lf) == ParseItems(req, lf, "searchNearby" :> 1)

\* Nothing is cached when the process starts (line 46).
NotCached == [hit |-> FALSE, table |-> <<>>]

FilterInit ==
    /\ list_filters = [u \in Urls |-> NotCached]
    /\ pc = "new"
    /\ url = None
    /\ request = <<>>
    /\ filters = <<>>
    /\ fetched = {}
    /\ fault = NoFault

\* CraigslistBase(site, category, filters): lines 57-80. get_list_filters
\* (lines 436-440) fetches the table, `table`, when the cache has none for u.
Construct(u, req, table) ==
    /\ pc = "new"
    /\ LET miss == ~list_filters[u].hit
           lf == IF miss THEN table ELSE list_filters[u].table
       IN /\ list_filters' = [list_filters EXCEPT ![u] = [hit |-> TRUE, table |-> lf]]
          /\ fetched' = IF miss THEN {"list_filters"} ELSE {}
          /\ filters' = get_filters(req, lf)
    /\ url' = u
    /\ request' = req
    /\ pc' = "ready"
    /\ fault' = NoFault
    /\ UNCHANGED <<enrichVars, flagVars, crawlVars, browserVars, geoVars, cacheVars>>

(***************************************************************************)
(* get_list_filters called from several threads.                           *)
(***************************************************************************)

\* Bound on the threads that call get_list_filters.
MaxCallers == 2

Callers == 1..MaxCallers

CacheIdle ==
    /\ cpc = [c \in Callers |-> "idle"]
    /\ carg = [c \in Callers |-> "newyork/sss"]
    /\ fetches = [u \in Urls |-> 0]

\* get_list_filters(url) is called.
CallGetListFilters(c, u) ==
    /\ cpc[c] = "idle"
    /\ cpc' = [cpc EXCEPT ![c] = "test"]
    /\ carg' = [carg EXCEPT ![c] = u]
    /\ UNCHANGED <<fetches, list_filters>>
    /\ UNCHANGED <<enrichVars, flagVars, url, request, filters, searchVars, crawlVars,
                   browserVars, geoVars>>

\* Line 438: `if cls.__list_filters.get(url) is None`.
CacheTest(c) ==
    /\ cpc[c] = "test"
    /\ cpc' = [cpc EXCEPT ![c] = IF list_filters[carg[c]].hit THEN "return" ELSE "fetch"]
    /\ UNCHANGED <<carg, fetches, list_filters>>
    /\ UNCHANGED <<enrichVars, flagVars, url, request, filters, searchVars, crawlVars,
                   browserVars, geoVars>>

\* Line 439: utils.get_list_filters(url) is called and what it returns, the
\* table, is stored in the class attribute.
CacheFetch(c, table) ==
    /\ cpc[c] = "fetch"
    /\ fetches' = [fetches EXCEPT ![carg[c]] = @ + 1]
    /\ list_filters' = [list_filters EXCEPT ![carg[c]] = [hit |-> TRUE, table |-> table]]
    /\ cpc' = [cpc EXCEPT ![c] = "return"]
    /\ UNCHANGED carg
    /\ UNCHANGED <<enrichVars, flagVars, url, request, filters, searchVars, crawlVars,
                   browserVars, geoVars>>

\* Line 440: `return cls.__list_filters[url]`.
CacheReturn(c) ==
    /\ cpc[c] = "return"
    /\ cpc' = [cpc EXCEPT ![c] = "idle"]
    /\ UNCHANGED <<carg, fetches, list_filters>>
    /\ UNCHANGED <<enrichVars, flagVars, url, request, filters, searchVars, crawlVars,
                   browserVars, geoVars>>

(***************************************************************************)
(* The browser session (class attributes of CraigslistBrowser).            *)
(***************************************************************************)

BrowserIdle ==
    /\ DRIVER = 0
    /\ launched = 0
    /\ quitted = {}
    /\ elapsed = 0
    /\ waiting = FALSE
    /\ mop = "none"
    /\ mpc = "idle"
    /\ driver = 0
    /\ tpc = "sleep"

(***************************************************************************)
(* The pagination engine: get_results.                                     *)
(***************************************************************************)

\* Bounds of a results page.
MaxRows == 3
MaxDeclared == 3

\* RESULTS_PER_REQUEST, line 21.
RESULTS_PER_REQUEST == 100

\* An absent count: get_results_approx_count returns None (line 145), the
\* page has no div.result-count (line 179).
NoCount == -1

\* The sort_by arguments of the model; "oldest" is no key of sort_by_options.
SortKeys == {None, "newest", "oldest"}

\* What utils.requests_get gives for a results page: nothing (ok is FALSE), or
\* a page with or without its <ol>, its div.result-count (count), its
\* span.totalcount and nrows result rows.
FailedPage == [ok |-> FALSE, ol |-> FALSE, count |-> NoCount, totalcount |-> NoCount, nrows |-> 0]

PageResponses ==
    {FailedPage}
    \cup [ok : {TRUE}, ol : {FALSE}, count : {NoCount}, totalcount : {NoCount}, nrows : {0}]
    \cup [ok : {TRUE}, ol : {TRUE}, count : {NoCount} \cup 0..MaxDeclared,
          totalcount : {NoCount, MaxDeclared}, nrows : 0..MaxRows]

CrawlIdle ==
    /\ start = 0
    /\ total_so_far = 0
    /\ results_yielded = 0
    /\ total = 0
    /\ limit = NoCount
    /\ nrows = 0
    /\ rowsSeen = <<>>
    /\ yielded = <<>>
    /\ call_fetched = {}

\* The search is over and its CraigslistBase dropped (Craigslist.search makes
\* one per keyword); the class attribute __list_filters and the browser stay.
Release ==
    /\ pc \in {"ready", "done", "raised"}
    /\ pc' = "new"
    /\ url' = None
    /\ request' = <<>>
    /\ filters' = <<>>
    /\ fetched' = {}
    /\ fault' = NoFault
    /\ start' = 0 /\ total_so_far' = 0 /\ results_yielded' = 0 /\ total' = 0
    /\ limit' = NoCount /\ nrows' = 0 /\ rowsSeen' = <<>> /\ yielded' = <<>>
    /\ call_fetched' = {}
    /\ UNCHANGED <<list_filters, flagVars, enrichVars, browserVars>>
    /\ UNCHANGED <<geoVars, cacheVars>>

GetResultsCall_LateCheck(sort_by, g, d) ==
    /\ pc \in {"ready", "done", "raised"}
    /\ geotagged' = g
    /\ include_details' = d
    /\ start' = 0 /\ total_so_far' = 0 /\ results_yielded' = 0 /\ total' = 0
    /\ limit' = NoCount /\ nrows' = 0 /\ rowsSeen' = <<>> /\ yielded' = <<>>
    /\ IF sort_by # None /\ sort_by \notin DOMAIN sort_by_options
       THEN /\ fault' = "ValueError"
            /\ pc' = "raised"
            /\ filters' = Put(filters, "s", 0)
            /\ call_fetched' = {"results"}
            /\ fetched' = fetched \cup {"results"}
       ELSE /\ fault' = NoFault
            /\ pc' = "fetch"
            /\ filters' = IF sort_by = None THEN filters
                          ELSE Put(filters, "sort", sort_by_options[sort_by])
            /\ call_fetched' = {}
            /\ fetched' = fetched
    /\ UNCHANGED <<list_filters, url, request, enrichVars, browserVars>>
    /\ UNCHANGED <<geoVars, cacheVars>>

\* get_results(sort_by=..., geotagged=..., include_details=...) up to the loop,
\* lines 155-165: the sort key is resolved, or ValueError raised, before the
\* first request.
GetResultsCall(sort_by, g, d) ==
    /\ pc \in {"ready", "done", "raised"}
    /\ geotagged' = g
    /\ include_details' = d
    /\ start' = 0 /\ total_so_far' = 0 /\ results_yielded' = 0 /\ total' = 0
    /\ limit' = NoCount /\ nrows' = 0 /\ rowsSeen' = <<>> /\ yielded' = <<>>
    /\ call_fetched' = {}
    /\ IF sort_by # None /\ sort_by \notin DOMAIN sort_by_options
       THEN /\ fault' = "ValueError"
            /\ pc' = "raised"
            /\ filters' = filters
       ELSE /\ fault' = NoFault
            /\ pc' = "fetch"
            /\ filters' = IF sort_by = None THEN filters
                          ELSE Put(filters, "sort", sort_by_options[sort_by])
    /\ UNCHANGED <<list_filters, url, request, fetched, enrichVars, browserVars>>
    /\ UNCHANGED <<geoVars, cacheVars>>

\* Lines 168-180: one request for the page at `start`, and what is read of
\* the page before its rows.
FetchPage(resp) ==
    /\ pc = "fetch"
    /\ filters' = Put(filters, "s", start)
    /\ fetched' = fetched \cup {"results"}
    /\ call_fetched' = call_fetched \cup {"results"}
    /\ rowsSeen' = <<>>
    /\ yielded' = <<>>
    /\ IF ~resp.ok
       THEN /\ pc' = "done"
            /\ UNCHANGED <<total, limit, nrows, fault>>
       ELSE /\ total' = IF total = 0 \/ total = NoCount THEN resp.totalcount ELSE total
            /\ IF ~resp.ol \/ resp.count = NoCount
               THEN /\ pc' = "raised"
                    /\ fault' = "AttributeError"
                    /\ UNCHANGED <<limit, nrows>>
               ELSE /\ pc' = "rows"
                    /\ limit' = resp.count
                    /\ nrows' = resp.nrows
                    /\ fault' = NoFault
    /\ UNCHANGED <<list_filters, url, request, start, total_so_far, results_yielded>>
    /\ UNCHANGED <<geotagged, include_details, enrichVars, browserVars>>
    /\ UNCHANGED <<geoVars, cacheVars>>

\* What the consumer of the generator receives for a row.
Item(o) ==
    IF IsNone(o.result) THEN [null |-> TRUE, id |-> 0]
    ELSE [null |-> FALSE, id |-> o.result.id]

\* What a process_row call leaves in the generator: the item, the exception,
\* whether the detail page was requested, whether the browser was asked for.
RowEffect(o) ==
    [item |-> Item(o), fault |-> o.fault, detail_fetch |-> o.detail_fetch,
     browser |-> o.browser]

\* The effects process_row can have on a row of a given shape, over every
\* detail page fetch_content can return for it.
RowEffects ==
    [g \in BOOLEAN |-> [d \in BOOLEAN |-> [shape \in RowShapes(1..MaxRows) |->
        {RowEffect(ProcessRow(shape, g, d, page)) : page \in DetailPages}]]]

\* Lines 182-195 for the next row of the page: process_row runs and its value
\* is yielded, or its exception leaves the generator.
YieldRowWith(shape, e) ==
    /\ rowsSeen' = Append(rowsSeen, [pid |-> shape.pid, spacer |-> shape.spacer])
    /\ fetched' = IF e.detail_fetch THEN fetched \cup {"detail"} ELSE fetched
    /\ call_fetched' = IF e.detail_fetch THEN call_fetched \cup {"detail"}
                       ELSE call_fetched
    /\ IF e.browser /\ DRIVER = 0
       THEN /\ launched' = launched + 1
            /\ DRIVER' = launched + 1
       ELSE UNCHANGED <<launched, DRIVER>>
    /\ IF e.fault # NoFault
       THEN /\ fault' = e.fault
            /\ pc' = "raised"
            /\ UNCHANGED <<yielded, results_yielded, total_so_far>>
       ELSE /\ yielded' = Append(yielded, e.item)
            /\ results_yielded' = results_yielded + 1
            /\ total_so_far' = total_so_far + 1
            /\ UNCHANGED <<fault, pc>>

YieldRow ==
    /\ pc = "rows"
    /\ Len(rowsSeen) < nrows
    /\ ~(results_yielded >= limit)
    /\ \E shape \in RowShapes({Len(rowsSeen) + 1}) :
          \E e \in RowEffects[geotagged][include_details][shape] : YieldRowWith(shape, e)
    /\ UNCHANGED <<list_filters, url, request, filters, start, total, limit, nrows>>
    /\ UNCHANGED <<geotagged, include_details, enrichVars>>
    /\ UNCHANGED <<quitted, elapsed, waiting, mop, mpc, driver, tpc>>
    /\ UNCHANGED <<geoVars, cacheVars>>

PageEnd_NoBreak ==
    /\ pc = "rows"
    /\ Len(rowsSeen) = nrows \/ results_yielded >= limit
    /\ pc' = "fetch"
    /\ start' = total_so_far
    /\ UNCHANGED <<list_filters, url, request, filters, fetched, fault>>
    /\ UNCHANGED <<total_so_far, results_yielded, total, limit, nrows, rowsSeen, yielded,
                   call_fetched>>
    /\ UNCHANGED <<geotagged, include_details, enrichVars, browserVars>>
    /\ UNCHANGED <<geoVars, cacheVars>>

\* Lines 183-184 and 197-200: the row loop ends, and the sequence with it
\* unless the page gave RESULTS_PER_REQUEST items.
PageEnd ==
    /\ pc = "rows"
    /\ Len(rowsSeen) = nrows \/ results_yielded >= limit
    /\ IF (total_so_far - start) < RESULTS_PER_REQUEST
       THEN /\ pc' = "done"
            /\ start' = start
       ELSE /\ pc' = "fetch"
            /\ start' = total_so_far
    /\ UNCHANGED <<list_filters, url, request, filters, fetched, fault>>
    /\ UNCHANGED <<total_so_far, results_yielded, total, limit, nrows, rowsSeen, yielded,
                   call_fetched>>
    /\ UNCHANGED <<geotagged, include_details, enrichVars, browserVars>>
    /\ UNCHANGED <<geoVars, cacheVars>>

(***************************************************************************)
(* Pagination over full pages: get_results on pages of about                *)
(* RESULTS_PER_REQUEST rows.                                               *)
(***************************************************************************)

\* Bound on the declared result counts: up to MaxHundreds * RESULTS_PER_REQUEST.
MaxHundreds == 2

\* Results pages of one row less than RESULTS_PER_REQUEST, of exactly as many
\* and of one more, each declaring a multiple of RESULTS_PER_REQUEST as its
\* result count; and the failed fetch.
FullPageResponses ==
    {FailedPage}
    \cup [ok : {TRUE}, ol : {TRUE},
          count : {h * RESULTS_PER_REQUEST : h \in 1..MaxHundreds},
          totalcount : {NoCount},
          nrows : {RESULTS_PER_REQUEST - 1, RESULTS_PER_REQUEST, RESULTS_PER_REQUEST + 1}]

\* Lines 182-195 for the next row of a full page, read without the detail
\* page: a listing row, whose record is yielded, or a row without div.meta,
\* on which process_row raises.
YieldListingRow ==
    /\ pc = "rows"
    /\ Len(rowsSeen) < nrows
    /\ ~(results_yielded >= limit)
    /\ ~geotagged
    /\ ~include_details
    /\ \E meta \in BOOLEAN :
          LET shape == [pid |-> Len(rowsSeen) + 1, spacer |-> FALSE, link |-> TRUE,
                        meta |-> meta, price |-> TRUE]
          IN YieldRowWith(shape, RowEffect(ProcessRow(shape, FALSE, FALSE, NoPage)))
    /\ UNCHANGED <<list_filters, url, request, filters, start, total, limit, nrows>>
    /\ UNCHANGED <<geotagged, include_details, enrichVars>>
    /\ UNCHANGED <<quitted, elapsed, waiting, mop, mpc, driver, tpc>>
    /\ UNCHANGED <<geoVars, cacheVars>>

(***************************************************************************)
(* The geotagging workers: geotag_results.                                 *)
(***************************************************************************)

\* Bounds of a geotag_results call.
MaxRecords == 3
MaxWorkers == 2

\* The records handed to geotag_results: listing i at position i, its geotag
\* None or one set earlier.
GeoInputs ==
    UNION { {[i \in 1..n |-> [id |-> i, geotag |-> tags[i]]] :
                tags \in [1..n -> {None, "latlng"}]} : n \in 0..MaxRecords }

Threads == 1..MaxWorkers

GeoIdle ==
    /\ input = <<>>
    /\ workers = 1
    /\ results = <<>>
    /\ queue = <<>>
    /\ gpc = "fill"
    /\ started = 0
    /\ wpc = [w \in Threads |-> "unstarted"]
    /\ taken = <<>>
    /\ tagged = {}
    /\ ret = <<>>

GeoInit ==
    /\ input \in GeoInputs
    /\ workers \in 1..MaxWorkers
    /\ results = <<>>
    /\ queue = <<>>
    /\ gpc = "fill"
    /\ started = 0
    /\ wpc = [w \in Threads |-> "unstarted"]
    /\ taken = <<>>
    /\ tagged = {}
    /\ ret = <<>>

\* Line 423: self.geotag_result(queue.get()). geotag_result(self, result,
\* soup) is given no soup: once the record is dequeued the call raises
\* TypeError and no statement of geotag_result runs.
CallGeotagResult(result) == [result |-> result, fault |-> "TypeError"]

\* Lines 414-418: the list is copied and every record put on the queue.
FillQueue ==
    /\ gpc = "fill"
    /\ results' = input
    /\ queue' = [i \in 1..Len(input) |-> i]
    /\ gpc' = "start"
    /\ UNCHANGED <<input, workers, started, wpc, taken, tagged, ret>>
    /\ UNCHANGED nonGeoVars

\* Lines 427-430: the next thread is started.
StartThread ==
    /\ gpc = "start"
    /\ IF started < workers
       THEN /\ started' = started + 1
            /\ wpc' = [wpc EXCEPT ![started + 1] = "test"]
            /\ gpc' = gpc
       ELSE /\ gpc' = "join"
            /\ UNCHANGED <<started, wpc>>
    /\ UNCHANGED <<input, workers, results, queue, taken, tagged, ret>>
    /\ UNCHANGED nonGeoVars

\* Line 421: `while not queue.empty()`.
WorkerTest(w) ==
    /\ wpc[w] = "test"
    /\ wpc' = [wpc EXCEPT ![w] = IF queue = <<>> THEN "exited" ELSE "get"]
    /\ UNCHANGED <<input, workers, results, queue, gpc, started, taken, tagged, ret>>
    /\ UNCHANGED nonGeoVars

\* Lines 423-424: queue.get() blocks while the queue is empty; the record it
\* returns goes to geotag_result, and an exception ends the thread.
WorkerGet(w) ==
    /\ wpc[w] = "get"
    /\ queue # <<>>
    /\ LET i == Head(queue)
           o == CallGeotagResult(results[i])
       IN /\ queue' = Tail(queue)
          /\ taken' = Append(taken, [rec |-> i, thread |-> w])
          /\ IF o.fault # NoFault
             THEN /\ wpc' = [wpc EXCEPT ![w] = "dead"]
                  /\ UNCHANGED <<results, tagged>>
             ELSE /\ wpc' = [wpc EXCEPT ![w] = "test"]
                  /\ results' = [results EXCEPT ![i] = o.result]
                  /\ tagged' = tagged \cup {i}
    /\ UNCHANGED <<input, workers, gpc, started, ret>>
    /\ UNCHANGED nonGeoVars

ReturnValue_DrainOrder(rs, tk) == [n \in 1..Len(tk) |-> rs[tk[n].rec]]

\* Line 434: `return results`.
ReturnValue(rs, tk) == rs

\* Lines 432-434: every thread is joined, then the list is returned.
JoinAndReturn ==
    /\ gpc = "join"
    /\ \A w \in 1..started : wpc[w] \in {"dead", "exited"}
    /\ gpc' = "returned"
    /\ ret' = ReturnValue(results, taken)
    /\ UNCHANGED <<input, workers, results, queue, started, wpc, taken, tagged>>
    /\ UNCHANGED nonGeoVars

\* geotag_results(results, workers=1) run to its end: the single thread's loop
\* over the queue q, from the records recs.
RECURSIVE Geotagger(_, _)
Geotagger(q, recs) ==
    IF q = <<>> THEN recs
    ELSE LET o == CallGeotagResult(recs[Head(q)])
         IN IF o.fault # NoFault THEN recs
            ELSE Geotagger(Tail(q), [recs EXCEPT ![Head(q)] = o.result])

SequentialRun(rs) == Geotagger([i \in 1..Len(rs) |-> i], rs)

(***************************************************************************)
(* The browser session manager, statement by statement: the main thread    *)
(* runs get_driver, visit, quit, show_source and the contact reveal of     *)
(* include_details; the threading.Timer thread runs check_activity.        *)
(***************************************************************************)

\* Bound on the browsers launched in a run.
MaxInstances == 3

\* The idle time after which check_activity quits, line 84.
IdleLimit == 5

\* Instances launched and not quit.
Live == (1..launched) \ quitted

Usable(d) == d # 0 /\ d \notin quitted

\* The main thread enters an operation.
Begin(op, at) ==
    /\ mpc = "idle"
    /\ mop' = op
    /\ mpc' = at
    /\ UNCHANGED <<DRIVER, launched, quitted, elapsed, waiting, driver, tpc>>
    /\ UNCHANGED nonBrowserVars

\* The main thread's operation returns, or an exception leaves it.
EndOp ==
    /\ mop' = "none"
    /\ mpc' = "idle"

CallGetDriver == Begin("get_driver", "gd_test")
CallVisit == Begin("visit", "v_stamp")
CallQuit == Begin("quit", "q_test")
CallShowSource == \E wait \in BOOLEAN : Begin("show_source", IF wait THEN "s_flag" ELSE "s_script")
CallReveal == Begin("reveal", "gd_test")

\* set_driver, lines 36-39: a browser is launched and DRIVER set to it.
set_driver ==
    /\ launched < MaxInstances
    /\ launched' = launched + 1
    /\ DRIVER' = launched + 1

\* get_driver, lines 42-45 (also line 287, when include_details calls it).
GetDriverTest ==
    /\ mpc = "gd_test"
    /\ mpc' = IF DRIVER = 0 THEN "gd_set" ELSE "gd_ret"
    /\ UNCHANGED <<DRIVER, launched, quitted, elapsed, waiting, mop, driver, tpc>>
    /\ UNCHANGED nonBrowserVars

GetDriverSet ==
    /\ mpc = "gd_set"
    /\ set_driver
    /\ mpc' = "gd_ret"
    /\ UNCHANGED <<quitted, elapsed, waiting, mop, driver, tpc>>
    /\ UNCHANGED nonBrowserVars

GetDriverReturn ==
    /\ mpc = "gd_ret"
    /\ driver' = DRIVER
    /\ IF mop = "reveal" THEN mpc' = "r_get" /\ mop' = mop ELSE EndOp
    /\ UNCHANGED <<DRIVER, launched, quitted, elapsed, waiting, tpc>>
    /\ UNCHANGED nonBrowserVars

\* visit, lines 48-53.
VisitStamp ==
    /\ mpc = "v_stamp"
    /\ elapsed' = 0
    /\ mpc' = "v_test"
    /\ UNCHANGED <<DRIVER, launched, quitted, waiting, mop, driver, tpc>>
    /\ UNCHANGED nonBrowserVars

VisitTest ==
    /\ mpc = "v_test"
    /\ mpc' = IF DRIVER = 0 THEN "v_set" ELSE "v_get"
    /\ UNCHANGED <<DRIVER, launched, quitted, elapsed, waiting, mop, driver, tpc>>
    /\ UNCHANGED nonBrowserVars

VisitSet ==
    /\ mpc = "v_set"
    /\ set_driver
    /\ mpc' = "v_get"
    /\ UNCHANGED <<quitted, elapsed, waiting, mop, driver, tpc>>
    /\ UNCHANGED nonBrowserVars

VisitGet ==
    /\ mpc = "v_get"
    /\ EndOp
    /\ UNCHANGED <<DRIVER, launched, quitted, elapsed, waiting, driver, tpc>>
    /\ UNCHANGED nonBrowserVars

\* quit, lines 75-80, by the main thread.
QuitTest ==
    /\ mpc = "q_test"
    /\ IF DRIVER = 0 THEN EndOp ELSE mpc' = "q_quit" /\ mop' = mop
    /\ UNCHANGED <<DRIVER, launched, quitted, elapsed, waiting, driver, tpc>>
    /\ UNCHANGED nonBrowserVars

QuitQuit ==
    /\ mpc = "q_quit"
    /\ IF DRIVER = 0
       THEN EndOp /\ quitted' = quitted
       ELSE mpc' = "q_clear" /\ mop' = mop /\ quitted' = quitted \cup {DRIVER}
    /\ UNCHANGED <<DRIVER, launched, elapsed, waiting, driver, tpc>>
    /\ UNCHANGED nonBrowserVars

QuitClear ==
    /\ mpc = "q_clear"
    /\ DRIVER' = 0
    /\ EndOp
    /\ UNCHANGED <<launched, quitted, elapsed, waiting, driver, tpc>>
    /\ UNCHANGED nonBrowserVars

\* show_source, lines 56-72.
SourceFlag ==
    /\ mpc = "s_flag"
    /\ waiting' = TRUE
    /\ mpc' = "s_wait"
    /\ UNCHANGED <<DRIVER, launched, quitted, elapsed, mop, driver, tpc>>
    /\ UNCHANGED nonBrowserVars

\* The page-load wait ends: the element is there, or the wait raised (a
\* timeout, or no usable browser) and show_source returns.
SourceWait ==
    /\ mpc = "s_wait"
    /\ \/ /\ Usable(DRIVER)
          /\ mpc' = "s_script"
          /\ UNCHANGED <<waiting, mop>>
       \/ /\ waiting' = FALSE
          /\ EndOp
    /\ UNCHANGED <<DRIVER, launched, quitted, elapsed, driver, tpc>>
    /\ UNCHANGED nonBrowserVars

\* Lines 69-72: execute_script, and waiting cleared unless it raised.
SourceScript ==
    /\ mpc = "s_script"
    /\ waiting' = IF Usable(DRIVER) THEN FALSE ELSE waiting
    /\ EndOp
    /\ UNCHANGED <<DRIVER, launched, quitted, elapsed, driver, tpc>>
    /\ UNCHANGED nonBrowserVars

\* include_details, lines 288-329: driver.get, the email step, the phone step.
\* driver.get on a browser that has been quit raises and ends the call.
RevealGet ==
    /\ mpc = "r_get"
    /\ IF Usable(driver) THEN mpc' = "r_email" /\ mop' = mop ELSE EndOp
    /\ UNCHANGED <<DRIVER, launched, quitted, elapsed, waiting, driver, tpc>>
    /\ UNCHANGED nonBrowserVars

RevealEmail ==
    /\ mpc = "r_email"
    /\ \/ mpc' = "r_phone" /\ mop' = mop
       \/ EndOp
    /\ UNCHANGED <<DRIVER, launched, quitted, elapsed, waiting, driver, tpc>>
    /\ UNCHANGED nonBrowserVars

RevealPhone ==
    /\ mpc = "r_phone"
    /\ EndOp
    /\ UNCHANGED <<DRIVER, launched, quitted, elapsed, waiting, driver, tpc>>
    /\ UNCHANGED nonBrowserVars

\* An extraction is in flight: the contact reveal between driver.get and the
\* end of the phone step, or the page-load wait of show_source.
InFlight ==
    \/ mop = "reveal" /\ mpc \in {"r_get", "r_email", "r_phone"}
    \/ mop = "show_source" /\ mpc = "s_wait"

\* A second of wall-clock time passes.
Tick ==
    /\ elapsed < IdleLimit
    /\ elapsed' = elapsed + 1
    /\ UNCHANGED <<DRIVER, launched, quitted, waiting, mop, mpc, driver, tpc>>
    /\ UNCHANGED nonBrowserVars

\* The timer of line 86 fires and its thread enters check_activity.
TimerFires ==
    /\ tpc = "sleep"
    /\ tpc' = "chk"
    /\ UNCHANGED <<DRIVER, launched, quitted, elapsed, waiting, mop, mpc, driver>>
    /\ UNCHANGED nonBrowserVars

\* check_activity, line 84: quit is called when the session has been idle for
\* IdleLimit seconds and waiting is not set.
CheckActivity ==
    /\ tpc = "chk"
    /\ tpc' = IF elapsed >= IdleLimit /\ ~waiting THEN "q_test" ELSE "rearm"
    /\ UNCHANGED <<DRIVER, launched, quitted, elapsed, waiting, mop, mpc, driver>>
    /\ UNCHANGED nonBrowserVars

\* quit, lines 75-80, by the timer thread; the AttributeError of line 79 on a
\* DRIVER that became None ends the thread before it restarts the timer.
TimerQuitTest ==
    /\ tpc = "q_test"
    /\ tpc' = IF DRIVER = 0 THEN "rearm" ELSE "q_quit"
    /\ UNCHANGED <<DRIVER, launched, quitted, elapsed, waiting, mop, mpc, driver>>
    /\ UNCHANGED nonBrowserVars

TimerQuitQuit ==
    /\ tpc = "q_quit"
    /\ IF DRIVER = 0
       THEN tpc' = "dead" /\ quitted' = quitted
       ELSE tpc' = "q_clear" /\ quitted' = quitted \cup {DRIVER}
    /\ UNCHANGED <<DRIVER, launched, elapsed, waiting, mop, mpc, driver>>
    /\ UNCHANGED nonBrowserVars

TimerQuitClear ==
    /\ tpc = "q_clear"
    /\ DRIVER' = 0
    /\ tpc' = "rearm"
    /\ UNCHANGED <<launched, quitted, elapsed, waiting, mop, mpc, driver>>
    /\ UNCHANGED nonBrowserVars

\* Line 86: the next timer is started.
TimerRearm ==
    /\ tpc = "rearm"
    /\ tpc' = "sleep"
    /\ UNCHANGED <<DRIVER, launched, quitted, elapsed, waiting, mop, mpc, driver>>
    /\ UNCHANGED nonBrowserVars

(***************************************************************************)
(* Specifications.                                                         *)
(***************************************************************************)

\* process_row on every row shape, detail page and pair of flags.
InitEnrich ==
    /\ EnrichInit
    /\ FilterInit
    /\ CrawlIdle
    /\ BrowserIdle
    /\ GeoIdle
    /\ CacheIdle

NextEnrich == CallProcessRow

SpecEnrich == InitEnrich /\ [][NextEnrich]_vars

\* Objects constructed one after another in one process.
InitFilters ==
    /\ FilterInit
    /\ EnrichIdle
    /\ geotagged = FALSE
    /\ include_details = FALSE
    /\ CrawlIdle
    /\ BrowserIdle
    /\ GeoIdle
    /\ CacheIdle

NewInstance ==
    \E u \in Urls, req \in Requests, table \in ListFilterTables : Construct(u, req, table)

NextFilters ==
    \/ NewInstance
    \/ Release

SpecFilters == InitFilters /\ [][NextFilters]_vars

\* The searches of the crawl: the scenario's request, on one URL.
CrawlUrls == {"newyork/sss"}

CrawlRequests == { <<Scalar("query", "apple")>> }

NewSearch ==
    \E u \in CrawlUrls, req \in CrawlRequests, table \in ListFilterTables :
        Construct(u, req, table)

StartResults ==
    \E sort_by \in SortKeys, g \in BOOLEAN, d \in BOOLEAN : GetResultsCall(sort_by, g, d)

NextPage == \E resp \in PageResponses : FetchPage(resp)

NextCrawl ==
    \/ NewSearch
    \/ Release
    \/ StartResults
    \/ NextPage
    \/ YieldRow
    \/ PageEnd

SpecCrawl == InitFilters /\ [][NextCrawl]_vars

\* One search read page by page over full pages, the sort key valid.
NewPagedSearch ==
    \E u \in CrawlUrls, req \in CrawlRequests : Construct(u, req, <<>>)

StartPagedResults ==
    \E sort_by \in {None, "newest"} : GetResultsCall(sort_by, FALSE, FALSE)

NextFullPage == \E resp \in FullPageResponses : FetchPage(resp)

NextPaging ==
    \/ NewPagedSearch
    \/ StartPagedResults
    \/ NextFullPage
    \/ YieldListingRow
    \/ PageEnd

SpecPaging == InitFilters /\ [][NextPaging]_vars

\* The same, the generator consumed to its end: every request is answered
\* and the consumer asks for the next item as long as there is one.
SpecPagingFair ==
    /\ SpecPaging
    /\ WF_vars(NextFullPage)
    /\ WF_vars(YieldListingRow)
    /\ WF_vars(PageEnd)

\* One geotag_results call, for every list of records and worker count.
InitGeo ==
    /\ GeoInit
    /\ FilterInit
    /\ EnrichIdle
    /\ geotagged = FALSE
    /\ include_details = FALSE
    /\ CrawlIdle
    /\ BrowserIdle
    /\ CacheIdle

TestQueue == \E w \in Threads : WorkerTest(w)

GetRecord == \E w \in Threads : WorkerGet(w)

NextGeo ==
    \/ FillQueue
    \/ StartThread
    \/ TestQueue
    \/ GetRecord
    \/ JoinAndReturn

SpecGeo == InitGeo /\ [][NextGeo]_vars

\* The same call under fair scheduling of its threads.
SpecGeoFair ==
    /\ SpecGeo
    /\ WF_vars(FillQueue)
    /\ WF_vars(StartThread)
    /\ WF_vars(JoinAndReturn)
    /\ \A w \in Threads : WF_vars(WorkerTest(w)) /\ WF_vars(WorkerGet(w))

\* Threads of one process calling get_list_filters.
EnterGetListFilters == \E c \in Callers, u \in Urls : CallGetListFilters(c, u)

TestCache == \E c \in Callers : CacheTest(c)

FetchListFilters == \E c \in Callers, table \in ListFilterTables : CacheFetch(c, table)

ReturnListFilters == \E c \in Callers : CacheReturn(c)

NextCache ==
    \/ EnterGetListFilters
    \/ TestCache
    \/ FetchListFilters
    \/ ReturnListFilters

SpecCache == InitFilters /\ [][NextCache]_vars

\* The main thread and the timer thread on the browser session.
NextBrowser ==
    \/ CallGetDriver \/ CallVisit \/ CallQuit \/ CallShowSource \/ CallReveal
    \/ GetDriverTest \/ GetDriverSet \/ GetDriverReturn
    \/ VisitStamp \/ VisitTest \/ VisitSet \/ VisitGet
    \/ QuitTest \/ QuitQuit \/ QuitClear
    \/ SourceFlag \/ SourceWait \/ SourceScript
    \/ RevealGet \/ RevealEmail \/ RevealPhone
    \/ Tick
    \/ TimerFires \/ CheckActivity
    \/ TimerQuitTest \/ TimerQuitQuit \/ TimerQuitClear \/ TimerRearm

SpecBrowser == InitFilters /\ [][NextBrowser]_vars

(***************************************************************************)
(* Properties.                                                             *)
(***************************************************************************)

\* The summary records of the listing rows among `rows`, in page order.
RECURSIVE RecordsOf(_)
RecordsOf(rows) ==
    IF rows = <<>> THEN <<>>
    ELSE (IF Head(rows).spacer THEN <<>> ELSE <<[null |-> FALSE, id |-> Head(rows).pid]>>)
         \o RecordsOf(Tail(rows))

\* C1: as long as nothing was raised, the items get_results has yielded from
\* a page are exactly the summary records of the non-spacer rows it has
\* reached, in page order: no item for a spacer row, and no null item.
C1_OneRecordPerListingRow ==
    fault = NoFault => yielded = RecordsOf(rowsSeen)

\* C2 as claimed: when the invalid sort key raises ValueError, no network
\* fetch of any kind has been made, the list-filter fetch of the constructor
\* included.
C2_NoFetchBeforeSortError ==
    fault = "ValueError" => fetched = {} /\ call_fetched = {}

\* C2 as amended: when the invalid sort key raises ValueError, the get_results
\* call that raised it has made no results-page fetch and no detail fetch.
C2_NoPageFetchBeforeSortError ==
    fault = "ValueError" => call_fetched = {}

\* The sort key error is raised on an object whose construction fetched the
\* list filters.
C2_Witness ==
    /\ pc = "raised"
    /\ fault = "ValueError"
    /\ fetched = {"list_filters"}

\* C3: process_row on a row whose detail page was fetched and has no body, with
\* any of the two flags set: deleted is set, every other field of the summary
\* record is as the row parser built it, and the browser was not asked for.
C3_BodylessMarksDeletedOnly ==
    ( /\ called
      /\ NeedsDetail(row, geotagged, include_details)
      /\ soup.fetched
      /\ ~soup.body )
    => /\ out.fault = NoFault
       /\ out.result = [ParseRow(row) EXCEPT !.deleted = TRUE]
       /\ ~out.browser

\* C8: whatever element a results page, a row or a detail page lacks, the only
\* exception that reaches the caller of get_results is the ValueError of an
\* invalid sort key.
C8_OnlySortKeyErrorReachesCaller ==
    fault \in {NoFault, "ValueError"}

\* C9: once include_details has started the contact reveal, the phone step is
\* attempted whatever the email step did, and (on a page that has its
\* posting-info block) nothing is raised, the body is kept and created, images,
\* attrs and address are extracted.
C9_RevealNeverFatal ==
    (called /\ out.email_tried)
    => /\ out.phone_tried
       /\ soup.infos # "absent" =>
             /\ out.fault = NoFault
             /\ out.result.body = "body"
             /\ out.result.images = "images"
             /\ out.result.attrs = "attrs"
             /\ (soup.infos = "time") = (out.result.created = "created")
             /\ soup.address = (out.result.address = "address")

\* The semantic keys get_filters can resolve with the list filters lf.
KnownKeys(lf) == DOMAIN base_filters \cup DOMAIN extra_filters \cup DOMAIN lf

\* The filter a known key resolves to: base, then category, then list filters.
FilterOf(key, lf) ==
    IF key \in DOMAIN base_filters THEN base_filters[key]
    ELSE IF key \in DOMAIN extra_filters THEN extra_filters[key]
    ELSE lf[key]

\* The options an item asks for.
Asked(item) == IF item.iterable THEN item.items ELSE <<item.value>>

\* C10: get_filters raises nothing; searchNearby=1 is in its result; every
\* other parameter comes from a requested key found in one of the tables; and
\* under a list filter's provider key are the codes of the requested options
\* that are in the filter's mapping, one per such option and nothing else.
C10_OnlyResolvedOptions ==
    pc = "ready" =>
        LET lf == list_filters[url].table
        IN /\ fault = NoFault
           /\ "searchNearby" \in DOMAIN filters
           /\ filters["searchNearby"] = 1
           /\ \A k \in DOMAIN filters \ {"searchNearby"} :
                 \E i \in 1..Len(request) :
                    /\ request[i].key \in KnownKeys(lf)
                    /\ FilterOf(request[i].key, lf).url_key = k
           /\ \A i \in 1..Len(request) :
                 (request[i].key \in KnownKeys(lf)
                    /\ FilterOf(request[i].key, lf).kind = "list")
                 => LET f == FilterOf(request[i].key, lf)
                        asked == Asked(request[i])
                        codes == filters[f.url_key]
                    IN /\ f.url_key \in DOMAIN filters
                       /\ \A j \in 1..Len(codes) :
                             \E n \in 1..Len(asked) :
                                /\ asked[n] \in DOMAIN f.options
                                /\ codes[j] = f.options[asked[n]]
                       /\ Len(codes) =
                             Cardinality({n \in 1..Len(asked) : asked[n] \in DOMAIN f.options})

\* A request with a resolved option, an unresolved option and an unknown key.
C10_Witness ==
    /\ pc = "ready"
    /\ request = <<List("condition", <<"new", "mint">>), Scalar("colour", "red")>>
    /\ filters = ("searchNearby" :> 1) @@ ("condition" :> <<"10">>)

C5_QueueDrainedAndTagged ==
    gpc = "returned" =>
        /\ queue = <<>>
        /\ \A i \in 1..Len(input) :
              /\ Cardinality({n \in 1..Len(taken) : taken[n].rec = i}) = 1
              /\ i \in tagged

\* C6: at most one browser instance is live, and DRIVER holds no instance
\* that was quit (outside lines 79-80 of a quit in progress, between which
\* the handle is being cleared).
C6_SingleLiveBrowser ==
    /\ Cardinality(Live) <= 1
    /\ (mpc # "q_clear" /\ tpc # "q_clear") => DRIVER \notin quitted

\* C7: while an extraction is in flight, check_activity does not call quit.
C7_NoQuitWhileInFlight ==
    [][InFlight => ~(tpc = "chk" /\ tpc' = "q_test")]_vars

Min(a, b) == IF a <= b THEN a ELSE b

\* C11: get_results goes on to a further page exactly when the page it leaves
\* gave at least RESULTS_PER_REQUEST items; the offset of a further request is
\* the previous offset plus the number of items the previous page gave, which
\* is a larger offset; and after a failed fetch nothing more is fetched or
\* yielded by the call.
C11_FurtherPageIffFullPage ==
    [][ /\ (pc = "rows" /\ pc' # "rows")
           => ((pc' = "fetch") <=> (Len(yielded) >= RESULTS_PER_REQUEST))
        /\ (pc = "fetch" /\ "results" \in call_fetched)
           => /\ filters'["s"] = filters["s"] + Len(yielded)
              /\ filters'["s"] > filters["s"]
        /\ (pc = "fetch" /\ pc' = "done") => yielded' = <<>>
        /\ (pc = "done" /\ call_fetched' # {})
           => /\ call_fetched' = call_fetched
              /\ yielded' = yielded ]_vars

\* C12: when the row loop of a page ends, the page has given as many items as
\* the smaller of its number of rows and its own declared count.
C12_DeclaredCountPerPage ==
    [][ (pc = "rows" /\ pc' \in {"fetch", "done"})
        => Len(yielded) = Min(nrows, limit) ]_vars

\* C13: a get_results call with a valid sort key, consumed to its end, ends
\* after finitely many page fetches, whatever pages it is given.
C13_PaginationTerminates ==
    (pc = "fetch") ~> (pc \in {"done", "raised"})

\* The call has ended after a further page, which had RESULTS_PER_REQUEST
\* rows or more.
C13_Witness ==
    /\ pc = "done"
    /\ start >= RESULTS_PER_REQUEST
    /\ nrows >= RESULTS_PER_REQUEST

\* C14: under fair scheduling of the threads, geotag_results returns.
C14_EventuallyReturns ==
    <>(gpc = "returned")

\* C15: whatever the threads calling get_list_filters do, the list filters
\* of a URL are fetched at most once.
C15_FetchedAtMostOnce ==
    \A u \in Urls : fetches[u] <= 1

====
